---------------------------- MODULE Spec2Model ----------------------------
(***************************************************************************)
(* Model of the Tobii ET5 raw IR viewer (src/src/ir_viewer.c): the UVC     *)
(* bulk-stream frame reassembler read_frame, the capture loops of main     *)
(* that call it, the metadata stripper, the neighbour-difference           *)
(* classifier, the filter pipeline of the viewer loop and render_frame.    *)
(*                                                                         *)
(* Byte buffers are sequences of integers 0..255; the C index i of a       *)
(* buffer is element i + 1 of the sequence.                                *)
(***************************************************************************)
EXTENDS Integers, Sequences, FiniteSets, TLC

(***************************************************************************)
(* Program constants.                                                      *)
(***************************************************************************)
BFH_FID == 1
BFH_EOF == 2
BFH_ERR == 64
MinFrame == 100

(***************************************************************************)
(* Bounds of the model.                                                    *)
(***************************************************************************)
\* bufsz handed to read_frame (the callers hand MAX_FRAME_SIZE).
BufSz == 3
\* longest packet one bulk transfer delivers (the code allows 65536).
MaxPktLen == 4

VARIABLES
    \* ---- viewer capture loop and read_frame ----------------------------
    g_running,  \* the process-wide keep-running flag
    mpc,        \* position: "loop", "rf_check", "rf_xfer", "got", "done"
    held,       \* USB interfaces currently claimed
    buf,        \* fbuf, the frame buffer handed to read_frame
    off,        \* read_frame: bytes accumulated
    fid,        \* read_frame: tracked frame identity, -1 = none
    got,        \* read_frame's return value as seen by the caller
    \* ---- history of the current read_frame call ------------------------
    err,        \* error-flagged packets in this call: 0 = none, 1 = the last
                \* packet handled was one, 2 = an earlier packet was one
    fresh,      \* buffer indices written since the call began / the last error
    stable,     \* every packet of this call so far had a valid header, no
                \* error bit, the same identity bit, no end-of-frame bit
                \* before the last one, and the payloads fit in the buffer
    cat,        \* while stable: the payloads of this call's packets, in order
    bfh,        \* flags byte of the packet parsed last in this call (line 167)
    flipPay,    \* payload of the packet whose identity flip sealed the call
                \* that has just returned
    carry,      \* payload of the packet whose identity flip sealed the
                \* previous call, until this call's accumulation has begun
    \* ---- strip_meta_header applied to one frame ------------------------
    s_mem,      \* the bytes of the frame buffer
    s_pix,      \* *pix, as an offset into s_mem
    s_pixlen,   \* *pixlen
    s_ret,      \* the value returned, -1 = not called yet
    \* ---- neighbor_diff and the label applied to one frame --------------
    c_p,        \* the bytes handed to neighbor_diff (n = Len(c_p))
    c_nd,       \* the value returned, as the fraction num / den
    c_lab,      \* is_interleaved, -1 = not computed yet
    \* ---- render_frame applied to one frame -----------------------------
    r_src,      \* the bytes handed to render_frame (srclen = Len(r_src))
    r_w,        \* width
    r_mode,     \* mode
    r_dst,      \* the ARGB buffer, pixel index -> <<A, R, G, B>>
    r_rdmax,    \* highest source index read by the call, -1 = none
    r_wrmax,    \* highest destination index written by the call, -1 = none
    r_range,    \* the contrast range the call divided by, 0 = it divided by none
    r_done,     \* 1 once render_frame has returned
    \* ---- the viewer loop's filter pipeline (locals of main) ------------
    nfs,            \* (int)negotiated_frame_size
    stripe_filter, accumulate, frame_hold, bright_thresh, save_next,
    locked_size, last_avg,
    hold_buf,       \* bytes written to hold_buf so far
    hold_len, hold_valid,
    accum_buf,      \* accum_buf[0 .. accum_off)
    accum_off,
    frames, all_frames, skip_stripe, skip_dark, skip_size, skip_bright,
    saved,          \* content of /tmp/tobii_frame.raw, <<>> before a save
    shown,          \* the bytes last handed to render_frame
    v_out,          \* where the last loop iteration ended: "idle" before
                    \* the first, "none", "small", "accum", "stripe", "size",
                    \* "fpe", "dark", "bright" or "shown"
    v_pixlen,       \* pixlen when the last iteration reached the gates
    v_in,           \* what read_frame handed to the last iteration
    v_fopen,        \* fopen in the last iteration: "none" = not called,
                    \* "ok" = the file was opened, "fail" = it returned NULL
    v_savemsg,      \* the "[SAVED]" line of the last iteration: "saved" if
                    \* it was printed, "none" if not
    renders,        \* calls of render_frame followed by a present so far
    v_steps,        \* loop iterations and key presses so far
    v_cap,          \* loop iterations and key presses one run may take
    dw              \* the display width

rfVars == <<g_running, mpc, held, buf, off, fid, got>>
histVars == <<err, fresh, stable, cat, flipPay, carry, bfh>>
stripVars == <<s_mem, s_pix, s_pixlen, s_ret>>
classVars == <<c_p, c_nd, c_lab>>
renderVars == <<r_src, r_w, r_mode, r_dst, r_rdmax, r_wrmax, r_range, r_done>>
cfgVars == <<nfs, stripe_filter, accumulate, frame_hold, bright_thresh, save_next>>
holdVars == <<locked_size, last_avg, hold_buf, hold_len, hold_valid>>
accumVars == <<accum_buf, accum_off>>
countVars == <<frames, all_frames, skip_stripe, skip_dark, skip_size, skip_bright>>
outVars == <<saved, shown, v_out, v_pixlen, v_in, v_fopen, v_savemsg, renders>>
dispVars == <<dw>>
capVars == <<v_cap>>
viewVars == <<cfgVars, holdVars, accumVars, countVars, outVars, v_steps,
              dispVars, capVars>>
vars == <<rfVars, histVars, stripVars, classVars, renderVars, viewVars>>
\* what each part of the program leaves alone
notRf == <<stripVars, classVars, renderVars, viewVars>>
notStrip == <<rfVars, histVars, classVars, renderVars, viewVars>>
notClass == <<rfVars, histVars, stripVars, renderVars, viewVars>>
notRender == <<rfVars, histVars, stripVars, classVars, viewVars>>
notView == <<histVars, stripVars, classVars, renderVars, dispVars, capVars>>
notDisp == <<rfVars, histVars, stripVars, classVars, renderVars, cfgVars,
             holdVars, accumVars, countVars, outVars, v_steps, capVars>>

(***************************************************************************)
(* Helpers.                                                                *)
(***************************************************************************)
\* b & mask for a one-bit mask.
BitAnd(b, mask) == IF (b \div mask) % 2 = 1 THEN mask ELSE 0

Min(a, b) == IF a < b THEN a ELSE b

\* memcpy(dst + doff, src + soff, cnt) on sequences.
Memcpy(dst, doff, src, soff, cnt) ==
    [i \in DOMAIN dst |->
        IF i > doff /\ i <= doff + cnt THEN src[soff + (i - doff)] ELSE dst[i]]

\* The n bytes buf[0..n) as a sequence.
Frame(b, len) == SubSeq(b, 1, len)

IsPrefix(s, t) == Len(s) <= Len(t) /\ SubSeq(t, 1, Len(s)) = s

(***************************************************************************)
(* Packet Header Parser (read_frame, lines 169-171 and 183).               *)
(***************************************************************************)
\* The header is plausible: 2 <= hlen <= xferred.
ValidHeader(p) == Len(p) >= 2 /\ ~(p[1] < 2 \/ p[1] > Len(p))

(***************************************************************************)
(* Packets a bulk transfer may deliver: every length 0..MaxPktLen and      *)
(* every header length in HlenVals (1 is under 2; 3 exceeds a 2-byte       *)
(* packet).  A packet with a valid header carries each flags byte of       *)
(* BfhVals; a headerless one carries all three flag bits at once.  The     *)
(* bytes after the second are fixed by their position.                     *)
(***************************************************************************)
HlenVals == {1, 2, 3}
BfhVals == {0, BFH_FID, BFH_EOF, BFH_FID + BFH_EOF, BFH_ERR, BFH_ERR + BFH_EOF}
AllFlags == BFH_FID + BFH_EOF + BFH_ERR
Fill(k) == IF k % 2 = 1 THEN AllFlags ELSE 1

Packets ==
    UNION { { p \in [1..len -> HlenVals \cup BfhVals \cup {AllFlags}] :
                /\ len >= 1 => p[1] \in HlenVals
                /\ len >= 2 => p[2] \in (IF ValidHeader(p) THEN BfhVals ELSE {AllFlags})
                /\ \A k \in 3..len : p[k] = Fill(k) } : len \in 0..MaxPktLen }

\* plen = xferred - hlen
PayloadLen(p) == Len(p) - p[1]

\* Mutant: the header is taken to be two bytes long whatever it says.
M_PayloadOff_Fixed2(p) == 2

\* pkt + hlen: the offset the payload is copied from.
PayloadOff(p) == p[1]

\* The payload bytes of a valid-header packet.
Payload(p) == SubSeq(p, PayloadOff(p) + 1, PayloadOff(p) + PayloadLen(p))

M_ClampLen_None(o, len, bufsz) == len

\* n = (off + len <= bufsz) ? len : (bufsz - off)
ClampLen(o, len, bufsz) == IF o + len <= bufsz THEN len ELSE bufsz - o

(***************************************************************************)
(* One loop iteration of read_frame after a successful transfer of packet  *)
(* p (lines 167-188).  act = "continue" loops, act = "return" returns off. *)
(***************************************************************************)
OnRunt(p, b, o, f) ==
    [buf |-> b, off |-> o, fid |-> f, act |-> "continue", kind |-> "runt"]

\* Mutant: the first two bytes are dropped as if they were a header.
M_OnHeaderless_SkipsTwo(p, b, o, f, bufsz) ==
    LET cnt == ClampLen(o, Len(p) - 2, bufsz)
    IN [buf |-> Memcpy(b, o, p, 2, cnt), off |-> o + cnt, fid |-> f,
        act |-> "continue", kind |-> "raw"]

OnHeaderless(p, b, o, f, bufsz) ==
    LET cnt == ClampLen(o, Len(p), bufsz)
    IN [buf |-> Memcpy(b, o, p, 0, cnt), off |-> o + cnt, fid |-> f,
        act |-> "continue", kind |-> "raw"]

\* Mutant: the identity is reset but the accumulated bytes are kept.
M_OnError_KeepsBytes(p, b, o, f) ==
    [buf |-> b, off |-> o, fid |-> -1, act |-> "continue", kind |-> "err"]

OnError(p, b, o, f) ==
    [buf |-> b, off |-> 0, fid |-> -1, act |-> "continue", kind |-> "err"]

\* Mutant: the end-of-frame bit is not looked at.
M_OnPayload_NoEof(p, b, o, f, bufsz) ==
    LET plen == PayloadLen(p)
        cnt == IF plen > 0 THEN ClampLen(o, plen, bufsz) ELSE 0
    IN [buf |-> Memcpy(b, o, p, PayloadOff(p), cnt), off |-> o + cnt,
        fid |-> BitAnd(p[2], BFH_FID), act |-> "continue", kind |-> "append"]

OnFlip(p, b, o, f) ==
    [buf |-> b, off |-> o, fid |-> f, act |-> "return", kind |-> "flip"]

\* Mutant: the payload is copied to the start of the buffer, not to off.
M_OnPayload_AtStart(p, b, o, f, bufsz) ==
    LET plen == PayloadLen(p)
        cnt == IF plen > 0 THEN ClampLen(o, plen, bufsz) ELSE 0
        eof == BitAnd(p[2], BFH_EOF) # 0
    IN [buf |-> Memcpy(b, 0, p, PayloadOff(p), cnt), off |-> o + cnt,
        fid |-> BitAnd(p[2], BFH_FID),
        act |-> IF eof THEN "return" ELSE "continue",
        kind |-> IF eof THEN "eof" ELSE "append"]

OnPayload(p, b, o, f, bufsz) ==
    LET plen == PayloadLen(p)
        cnt == IF plen > 0 THEN ClampLen(o, plen, bufsz) ELSE 0
        eof == BitAnd(p[2], BFH_EOF) # 0
    IN [buf |-> Memcpy(b, o, p, PayloadOff(p), cnt), off |-> o + cnt,
        fid |-> BitAnd(p[2], BFH_FID),
        act |-> IF eof THEN "return" ELSE "continue",
        kind |-> IF eof THEN "eof" ELSE "append"]

\* Mutant: the end-of-frame bit is looked at before the error bit.
M_ProcessPacket_EofFirst(p, b, o, f, bufsz) ==
    IF Len(p) < 2 THEN OnRunt(p, b, o, f)
    ELSE IF ~ValidHeader(p) THEN OnHeaderless(p, b, o, f, bufsz)
    ELSE IF BitAnd(p[2], BFH_EOF) # 0 THEN OnPayload(p, b, o, f, bufsz)
    ELSE IF BitAnd(p[2], BFH_ERR) # 0 THEN OnError(p, b, o, f)
    ELSE IF f >= 0 /\ BitAnd(p[2], BFH_FID) # f /\ o > 0 THEN OnFlip(p, b, o, f)
    ELSE OnPayload(p, b, o, f, bufsz)

ProcessPacket(p, b, o, f, bufsz) ==
    IF Len(p) < 2 THEN OnRunt(p, b, o, f)
    ELSE IF ~ValidHeader(p) THEN OnHeaderless(p, b, o, f, bufsz)
    ELSE IF BitAnd(p[2], BFH_ERR) # 0 THEN OnError(p, b, o, f)
    ELSE IF f >= 0 /\ BitAnd(p[2], BFH_FID) # f /\ o > 0 THEN OnFlip(p, b, o, f)
    ELSE OnPayload(p, b, o, f, bufsz)

(***************************************************************************)
(* Initial state: interfaces 1 and 2 claimed, stream committed, fbuf       *)
(* calloc'ed, the viewer loop about to start.                              *)
(***************************************************************************)
RfInit ==
    /\ g_running = 1
    /\ mpc = "loop"
    /\ held = {1, 2}
    /\ buf = [i \in 1..BufSz |-> 0]
    /\ off = 0
    /\ fid = -1
    /\ got = 0
    /\ err = 0
    /\ fresh = {}
    /\ stable = TRUE
    /\ cat = <<>>
    /\ flipPay = <<>>
    /\ bfh = 0
    /\ carry = <<>>

\* The parts of the state that take no part in a specification.
StripIdle == s_mem = <<>> /\ s_pix = 0 /\ s_pixlen = 0 /\ s_ret = -1
ClassIdle == c_p = <<>> /\ c_nd = [num |-> 0, den |-> 1] /\ c_lab = -1
RenderIdle ==
    /\ r_src = <<>> /\ r_w = 0 /\ r_mode = 0 /\ r_dst = <<>>
    /\ r_rdmax = -1 /\ r_wrmax = -1 /\ r_range = 0 /\ r_done = 0

\* The viewer's locals as main initialises them (lines 417-456).
FRAME_W_DEFAULT == 642
\* loop iterations and key presses in one run of the model
MaxSteps == 3

ViewLocals ==
    /\ stripe_filter = 1 /\ accumulate = 0 /\ frame_hold = 1
    /\ bright_thresh = 15 /\ save_next = 0
    /\ locked_size = 0 /\ last_avg = -1
    /\ hold_buf = <<>> /\ hold_len = 0 /\ hold_valid = 0
    /\ accum_buf = <<>> /\ accum_off = 0
    /\ frames = 0 /\ all_frames = 0
    /\ skip_stripe = 0 /\ skip_dark = 0 /\ skip_size = 0 /\ skip_bright = 0
    /\ saved = <<>> /\ shown = <<>> /\ v_out = "idle" /\ v_pixlen = 0
    /\ v_in = [got |-> 0, mem |-> <<>>] /\ v_fopen = "none"
    /\ v_savemsg = "none"
    /\ renders = 0
    /\ v_steps = 0
    /\ dw = FRAME_W_DEFAULT
ViewLocalsInit == ViewLocals /\ v_cap = MaxSteps
ViewIdle == nfs = 0 /\ ViewLocalsInit

Init == RfInit /\ StripIdle /\ ClassIdle /\ RenderIdle /\ ViewIdle

\* SIGINT / SIGTERM: sig_handler clears the flag at any moment.
SigHandler ==
    /\ g_running = 1
    /\ mpc # "done"
    /\ g_running' = 0
    /\ UNCHANGED <<mpc, held, buf, off, fid, got, histVars>>
    /\ UNCHANGED notRf

\* Viewer loop head (lines 474-537) when the flag is clear, or a quit key or
\* window close clears it: break, then done: the interfaces are released.
View_Quit ==
    /\ mpc = "loop"
    /\ mpc' = "done"
    /\ g_running' = 0
    /\ held' = {}
    /\ UNCHANGED <<buf, off, fid, got, histVars>>
    /\ UNCHANGED notRf

\* Viewer loop head otherwise: read_frame is entered with off = 0, fid = -1
\* (lines 539, 160).
View_Read ==
    /\ mpc = "loop"
    /\ g_running = 1
    /\ mpc' = "rf_check"
    /\ off' = 0
    /\ fid' = -1
    /\ carry' = flipPay
    /\ flipPay' = <<>>
    /\ UNCHANGED <<g_running, held, buf, got, err, fresh, stable, cat, bfh>>
    /\ UNCHANGED notRf

\* Viewer, after read_frame (lines 540-543): got <= 0 delays and continues;
\* a frame under MinFrame bytes continues as well.  The iteration's locals
\* (got, and read_frame's off and fid) are gone, and the history of the
\* call with them.
View_Got ==
    /\ mpc = "got"
    /\ got <= 0 \/ got < MinFrame
    /\ mpc' = "loop"
    /\ got' = 0
    /\ off' = 0
    /\ fid' = -1
    /\ err' = 0
    /\ fresh' = {}
    /\ stable' = TRUE
    /\ cat' = <<>>
    /\ carry' = <<>>
    /\ bfh' = 0
    /\ UNCHANGED <<g_running, held, buf, flipPay>>
    /\ UNCHANGED notRf

M_RF_Check_IgnoresFlag ==
    /\ mpc = "rf_check"
    /\ IF off < BufSz
         THEN /\ mpc' = "rf_xfer"
              /\ got' = got
         ELSE /\ mpc' = "got"
              /\ got' = off
    /\ UNCHANGED <<g_running, held, buf, off, fid, histVars>>
    /\ UNCHANGED notRf

\* read_frame's loop test (line 162).
RF_Check ==
    /\ mpc = "rf_check"
    /\ IF off < BufSz /\ g_running = 1
         THEN /\ mpc' = "rf_xfer"
              /\ got' = got
         ELSE /\ mpc' = "got"
              /\ got' = off
    /\ UNCHANGED <<g_running, held, buf, off, fid, histVars>>
    /\ UNCHANGED notRf

M_RF_Retry_StartsOver ==
    /\ mpc = "rf_xfer"
    /\ mpc' = "rf_check"
    /\ off' = 0
    /\ fid' = -1
    /\ UNCHANGED <<g_running, held, buf, got, histVars>>
    /\ UNCHANGED notRf

\* libusb_bulk_transfer timed out or overflowed (lines 164-165): loop again.
RF_Retry ==
    /\ mpc = "rf_xfer"
    /\ mpc' = "rf_check"
    /\ UNCHANGED <<g_running, held, buf, off, fid, got, histVars>>
    /\ UNCHANGED notRf

\* libusb_bulk_transfer failed otherwise (line 166): return -1.
RF_Fail ==
    /\ mpc = "rf_xfer"
    /\ mpc' = "got"
    /\ got' = -1
    /\ UNCHANGED <<g_running, held, buf, off, fid, histVars>>
    /\ UNCHANGED notRf

\* libusb_bulk_transfer delivered packet p: the rest of the iteration
\* (lines 167-188).
RF_Packet(p) ==
    /\ mpc = "rf_xfer"
    /\ LET r == ProcessPacket(p, buf, off, fid, BufSz)
           ok == /\ stable /\ ValidHeader(p) /\ r.kind \in {"append", "eof"}
                 /\ (fid = -1 \/ fid = r.fid)
                 /\ Len(cat) + PayloadLen(p) <= BufSz
       IN /\ buf' = r.buf
          /\ off' = r.off
          /\ fid' = r.fid
          /\ mpc' = IF r.act = "return" THEN "got" ELSE "rf_check"
          /\ got' = IF r.act = "return" THEN r.off ELSE got
          /\ err' = IF r.kind = "err" THEN 1 ELSE IF err = 0 THEN 0 ELSE 2
          /\ fresh' = IF r.kind = "err" THEN {}
                      ELSE fresh \cup {i \in 0..(BufSz - 1) : i >= off /\ i < r.off}
          /\ stable' = ok
          /\ cat' = IF ok THEN cat \o Payload(p) ELSE <<>>
          /\ flipPay' = IF r.kind = "flip" THEN Payload(p) ELSE <<>>
          /\ carry' = IF off > 0 \/ r.kind = "err" THEN <<>> ELSE carry
          /\ bfh' = IF Len(p) >= 2 THEN p[2] ELSE bfh
    /\ UNCHANGED <<g_running, held>>
    /\ UNCHANGED notRf

RF_Xfer == \E p \in Packets : RF_Packet(p)

Next ==
    \/ SigHandler
    \/ View_Quit
    \/ View_Read
    \/ View_Got
    \/ RF_Check
    \/ RF_Retry
    \/ RF_Fail
    \/ RF_Xfer

Spec == Init /\ [][Next]_vars

\* The program is one thread that keeps running: the step at each position
\* is eventually taken, and every fetch returns (with a packet, a timeout, an
\* overflow or a failure).  Signals are under no such obligation.
LoopHead == View_Quit \/ View_Read
\* The length of a payload plays no part in cancellation: the fetches of
\* this specification deliver the packets shorter than MaxPktLen.
LivePackets == { p \in Packets : Len(p) < MaxPktLen }
RF_XferLive == \E p \in LivePackets : RF_Packet(p)
FetchLive == RF_Retry \/ RF_Fail \/ RF_XferLive
NextLive ==
    \/ SigHandler
    \/ View_Quit
    \/ View_Read
    \/ View_Got
    \/ RF_Check
    \/ RF_Retry
    \/ RF_Fail
    \/ RF_XferLive
SpecLive ==
    /\ Init /\ [][NextLive]_vars
    /\ WF_vars(LoopHead)
    /\ WF_vars(RF_Check)
    /\ WF_vars(FetchLive)
    /\ WF_vars(View_Got)

(***************************************************************************)
(* Claims about the reassembler and the capture loop.                      *)
(***************************************************************************)
InCall == mpc \in {"rf_check", "rf_xfer", "got"}

\* C1: while every packet of the call has had a valid header, no error bit
\* and the same identity bit, with no end-of-frame bit before the last one,
\* and the payloads fit in the buffer, the accumulated bytes are exactly the
\* in-order concatenation of the payloads, and a frame read_frame returns
\* then is that concatenation.
C1_RoundTrip ==
    stable =>
        /\ off = Len(cat)
        /\ Frame(buf, off) = cat
        /\ (mpc = "got" /\ got >= 0) => (got = Len(cat) /\ Frame(buf, got) = cat)

\* Three packets of one payload byte each, the last one end-of-frame
\* flagged, have been returned as one three-byte frame.
C1_Witness ==
    /\ mpc = "got" /\ stable /\ g_running = 1
    /\ got = 3 /\ cat = <<AllFlags, AllFlags, AllFlags>>

\* C2: the payload of the packet whose identity flip sealed the previous
\* frame starts the next accumulation.
C2_FlipPayloadStartsNext ==
    (InCall /\ carry # <<>> /\ off > 0) => IsPrefix(carry, Frame(buf, off))

\* C3: right after an error-flagged packet nothing is accumulated and the
\* identity is unset; the packet after it never seals by identity flip; and
\* a frame returned after an error-flagged packet holds only bytes written
\* after it.
C3_ErrorResets ==
    /\ err = 1 => (off = 0 /\ fid = -1)
    /\ (err = 1 /\ mpc = "rf_xfer") =>
           \A p \in Packets : ProcessPacket(p, buf, off, fid, BufSz).kind # "flip"
    /\ (err # 0 /\ mpc = "got" /\ got >= 0) => \A i \in 0..(got - 1) : i \in fresh

\* A one-byte frame has been returned after an error-flagged packet that
\* discarded at least two accumulated bytes.
C3_Witness ==
    /\ mpc = "got" /\ err = 2 /\ got = 1
    /\ buf[1] = AllFlags /\ buf[2] = 1

\* C4: once read_frame has reported a transport failure, the capture loop
\* goes on to its cleanup and nowhere else.
C4_TransportFailureFatal ==
    [][(mpc = "got" /\ got = -1 /\ mpc' # mpc) => mpc' = "done"]_vars

\* The claim's headerless packet: first byte under 2 or over the length.
Headerless(p) == Len(p) >= 1 /\ (p[1] < 2 \/ p[1] > Len(p))

\* The whole packet is appended verbatim, clamped to the ceiling; nothing is
\* returned, the identity is kept, the flag bits play no part.
AppendedVerbatim(p) ==
    LET r == ProcessPacket(p, buf, off, fid, BufSz)
    IN /\ r.off = Min(off + Len(p), BufSz)
       /\ \A k \in 1..BufSz :
             r.buf[k] = IF k > off /\ k <= r.off THEN p[k - off] ELSE buf[k]
       /\ r.fid = fid
       /\ r.act = "continue"

\* C5 as stated: every non-empty headerless packet, a one-byte one
\* included, is appended verbatim.
C5_HeaderlessVerbatim_AnyLength ==
    mpc = "rf_xfer" => \A p \in Packets : Headerless(p) => AppendedVerbatim(p)

\* C5, amended: every headerless packet of two bytes or more is appended
\* verbatim; a packet shorter than two bytes is skipped and changes nothing.
C5_HeaderlessVerbatim ==
    mpc = "rf_xfer" =>
        \A p \in Packets :
            /\ (Headerless(p) /\ Len(p) >= 2) => AppendedVerbatim(p)
            /\ Len(p) < 2 =>
                  LET r == ProcessPacket(p, buf, off, fid, BufSz)
                  IN r.buf = buf /\ r.off = off /\ r.fid = fid /\ r.act = "continue"

\* The headerless packet <<1, AllFlags>> has been appended with the identity
\* still unset and no error handled.
C5_Witness ==
    /\ mpc = "rf_check" /\ fid = -1 /\ err = 0
    /\ off = 2 /\ buf[1] = 1 /\ buf[2] = AllFlags

\* C6: the payload taken from a valid-header packet starts at offset
\* header_length and is packet length - header_length bytes long, never
\* more (fewer only where the buffer ceiling cuts it).
C6_PayloadBounds ==
    mpc = "rf_xfer" =>
        \A p \in Packets :
            (Len(p) >= 2 /\ p[1] >= 2 /\ p[1] <= Len(p)) =>
                LET r == ProcessPacket(p, buf, off, fid, BufSz)
                    hlen == p[1]
                    plen == Len(p) - hlen
                    errbit == BitAnd(p[2], BFH_ERR) # 0
                    flip == fid >= 0 /\ BitAnd(p[2], BFH_FID) # fid /\ off > 0
                IN /\ PayloadLen(p) = plen
                   /\ (~errbit /\ ~flip) =>
                         /\ r.off - off = Min(plen, BufSz - off)
                         /\ r.off - off <= plen
                         /\ \A k \in 1..(r.off - off) : r.buf[off + k] = p[hlen + k]

\* The one payload byte of a packet with a three-byte header has been
\* accumulated.
C6_Witness ==
    /\ mpc = "rf_check" /\ stable /\ off = 1
    /\ cat = <<1>> /\ buf[1] = 1


(***************************************************************************)
(* strip_meta_header (lines 215-224), applied as both capture loops apply  *)
(* it: *pix is the start of the frame buffer and *pixlen the frame length. *)
(***************************************************************************)
MetaLen == 10
MetaMinLen == 12
\* longest frame handed to the stripper
MaxStripLen == 14

M_strip_meta_header_TwoByteSig(mem, pix, pixlen) ==
    IF pixlen > MetaMinLen /\ mem[pix + 2] = 0 /\ mem[pix + 3] = 232
      THEN [mem |-> mem, pix |-> pix + MetaLen, pixlen |-> pixlen - MetaLen, ret |-> 1]
      ELSE [mem |-> mem, pix |-> pix, pixlen |-> pixlen, ret |-> 0]

\* (*pix)[k] is mem[pix + k + 1]; the signature is 00 e8 03 at offsets 1..3.
strip_meta_header(mem, pix, pixlen) ==
    IF pixlen > MetaMinLen /\ mem[pix + 2] = 0 /\ mem[pix + 3] = 232 /\ mem[pix + 4] = 3
      THEN [mem |-> mem, pix |-> pix + MetaLen, pixlen |-> pixlen - MetaLen, ret |-> 1]
      ELSE [mem |-> mem, pix |-> pix, pixlen |-> pixlen, ret |-> 0]

\* Frames: every length up to MaxStripLen, every combination of the three
\* signature values at offsets 1..3, and bytes that differ by position
\* elsewhere.
SigVals == {0, 232, 3}
StripInputs ==
    UNION { { [i \in 1..n |-> IF i \in 2..4 THEN h[i - 1] ELSE 16 + i] :
                h \in [1..3 -> SigVals] } : n \in 0..MaxStripLen }

InitStrip ==
    /\ RfInit /\ ClassIdle /\ RenderIdle /\ ViewIdle
    /\ s_mem \in StripInputs
    /\ s_pix = 0
    /\ s_pixlen = Len(s_mem)
    /\ s_ret = -1

\* int has_meta = strip_meta_header(&pix, &pixlen)  (lines 382, 551)
Strip_Call ==
    /\ s_ret = -1
    /\ LET r == strip_meta_header(s_mem, s_pix, s_pixlen)
       IN /\ s_mem' = r.mem
          /\ s_pix' = r.pix
          /\ s_pixlen' = r.pixlen
          /\ s_ret' = r.ret
    /\ UNCHANGED notStrip

NextStrip == Strip_Call

SpecStrip == InitStrip /\ [][NextStrip]_vars

\* C7: a call of strip_meta_header removes 10 leading bytes exactly when the
\* length is over 12 and bytes 1, 2, 3 are 00 e8 03, and removes nothing
\* otherwise; the length difference is 0 or 10, the flag returned is 1
\* exactly when 10 bytes were removed, the view moves forward by what was
\* removed, and the buffer's bytes are unchanged.
C7_StripTenOrNone ==
    [][ s_ret' # s_ret =>
          LET sig == /\ s_pixlen > 12
                     /\ s_mem[s_pix + 2] = 0
                     /\ s_mem[s_pix + 3] = 232
                     /\ s_mem[s_pix + 4] = 3
              removed == s_pixlen - s_pixlen'
          IN /\ removed \in {0, 10}
             /\ removed = 10 <=> sig
             /\ s_ret' \in {0, 1}
             /\ s_ret' = 1 <=> removed = 10
             /\ s_pix' = s_pix + removed
             /\ s_mem' = s_mem ]_vars

\* a 13-byte frame with the signature, stripped to its last 3 bytes
C7_Witness ==
    /\ s_ret = 1 /\ Len(s_mem) = 13 /\ s_pix = 10 /\ s_pixlen = 3
    /\ s_mem[2] = 0 /\ s_mem[3] = 232 /\ s_mem[4] = 3

(***************************************************************************)
(* neighbor_diff (lines 203-211) and the label computed from it            *)
(* (lines 569-570, 392).                                                   *)
(***************************************************************************)
PrefixCap == 4000
StripeThresh == 25
\* bytes of a frame past the first PrefixCap
MaxTail == 2

Abs(a) == IF a < 0 THEN -a ELSE a

\* for (i = lo; i <= hi; i++) sum += abs(p[i] - p[i-1]), C indices; the range
\* is halved rather than walked so that 4000 terms need no deep recursion.
RECURSIVE SumAbsDiff(_, _, _)
SumAbsDiff(p, lo, hi) ==
    IF lo > hi THEN 0
    ELSE IF lo = hi THEN Abs(p[lo + 1] - p[lo])
    ELSE LET mid == (lo + hi) \div 2
         IN SumAbsDiff(p, lo, mid) + SumAbsDiff(p, mid + 1, hi)

M_neighbor_diff_WholeFrame(p, n) ==
    IF n < 2 THEN [num |-> 0, den |-> 1]
    ELSE [num |-> SumAbsDiff(p, 1, n - 1), den |-> n - 1]

\* The double returned is num / den.
neighbor_diff(p, n) ==
    IF n < 2 THEN [num |-> 0, den |-> 1]
    ELSE LET check == IF n < PrefixCap THEN n ELSE PrefixCap
         IN [num |-> SumAbsDiff(p, 1, check - 1), den |-> check - 1]

M_IsInterleaved_Never(nd) == FALSE
M_IsInterleaved_Always(nd) == TRUE

\* nd > 25.0: the operands are integers far below 2^53, so the rounded
\* quotient exceeds 25 exactly when num exceeds 25 * den.
IsInterleaved(nd) == nd.num > StripeThresh * nd.den

\* Frames: the first PrefixCap bytes alternate between a and b, the bytes
\* after them between t[1] and t[2].
PatByte(i, a, b, t) ==
    IF i < PrefixCap THEN (IF i % 2 = 0 THEN a ELSE b)
    ELSE (IF i % 2 = 0 THEN t[1] ELSE t[2])
ClassVals == {0, 25, 26, 255}
TailPairs == {<<0, 0>>, <<255, 0>>, <<0, 255>>}
ClassLens == (0..3) \cup ((PrefixCap - 1)..(PrefixCap + MaxTail))
ClassInputs ==
    { [k \in 1..n |-> PatByte(k - 1, ab[1], ab[2], t)] :
        ab \in ClassVals \X ClassVals, t \in TailPairs, n \in ClassLens }

InitClass ==
    /\ RfInit /\ StripIdle /\ RenderIdle /\ ViewIdle
    /\ c_p \in ClassInputs
    /\ c_nd = [num |-> 0, den |-> 1]
    /\ c_lab = -1

\* double nd = neighbor_diff(pix, pixlen); is_interleaved = (nd > 25.0)
Class_Call ==
    /\ c_lab = -1
    /\ LET nd == neighbor_diff(c_p, Len(c_p))
       IN /\ c_nd' = nd
          /\ c_lab' = IF IsInterleaved(nd) THEN 1 ELSE 0
    /\ UNCHANGED <<c_p, notClass>>

NextClass == Class_Call

SpecClass == InitClass /\ [][NextClass]_vars

\* The sum the claim speaks of: |b[i] - b[i-1]| for 1 <= i < m.
RECURSIVE SumSeq(_, _, _)
SumSeq(s, lo, hi) ==
    IF lo > hi THEN 0
    ELSE IF lo = hi THEN s[lo]
    ELSE LET mid == (lo + hi) \div 2 IN SumSeq(s, lo, mid) + SumSeq(s, mid + 1, hi)
PrefixDiffTotal(b, m) ==
    SumSeq([i \in 1..(m - 1) |-> Abs(b[i + 1] - b[i])], 1, m - 1)
IsConstant(b) == \A i \in 1..Len(b) : b[i] = b[1]
IsAlternating(b) ==
    /\ Len(b) >= 2
    /\ b[1] \in {0, 255}
    /\ \A i \in 2..Len(b) : b[i] = 255 - b[i - 1]
LabelMatchesSum(b) ==
    LET m == Min(Len(b), 4000)
    IN c_lab = 1 <=> PrefixDiffTotal(b, m) > 25 * (m - 1)
Consequences(b) ==
    LET m == Min(Len(b), 4000)
    IN /\ IsConstant(b) => (c_nd.num = 0 /\ c_lab = 0)
       /\ IsAlternating(b) => (c_nd.num = 255 * c_nd.den /\ c_lab = 1)
       /\ c_lab = (IF IsInterleaved(neighbor_diff(SubSeq(b, 1, m), m)) THEN 1 ELSE 0)

MODE_RAW == 0
MODE_DEINT_EVEN == 1
MODE_DEINT_ODD == 2
MODE_16BIT_LE == 3
FRAME_H_DEFAULT == 480
MinWidth == 10
\* widest display width of the model (the viewer allows up to 1284)
MaxWidth == 11

\* pixels the ARGB buffer holds
ArgbCap == MaxWidth * FRAME_H_DEFAULT

\* A 32-bit pixel is written as its four bytes <<A, R, G, B>>.
Black == <<0, 0, 0, 0>>
\* 0xFF000000u | v << 16 | v << 8 | v
Pixel(v) == <<255, v, v, v>>

SetMin(S) == CHOOSE x \in S : \A y \in S : x <= y
SetMax(S) == CHOOSE x \in S : \A y \in S : x >= y

M_ClearDst_Nothing(dst, npix) == dst

\* memset(dst, 0, npix * 4)
ClearDst(dst, npix) ==
    [i \in DOMAIN dst \cup (0..(npix - 1)) |-> IF i < npix THEN Black ELSE dst[i]]

\* The two loops every mode runs over its limit samples: min and max
\* starting from mn0 and 0, then the contrast stretch into dst[0..limit).
M_StretchRange_FromZero(sample, limit, mn0) ==
    LET vals == {sample[i] : i \in 0..(limit - 1)}
        mx == SetMax(vals \cup {0})
    IN IF mx > 0 THEN mx ELSE 1

\* range = (mx - mn > 0) ? (mx - mn) : 1  after the min / max loop
StretchRange(sample, limit, mn0) ==
    LET vals == {sample[i] : i \in 0..(limit - 1)}
        mn == SetMin(vals \cup {mn0})
        mx == SetMax(vals \cup {0})
    IN IF mx - mn > 0 THEN mx - mn ELSE 1

M_StretchInto_NoOffset(dst, sample, limit, mn0) ==
    LET range == StretchRange(sample, limit, mn0)
        V(x) == LET s == (x * 255) \div range
                IN IF s < 0 THEN 0 ELSE IF s > 255 THEN 255 ELSE s
    IN [i \in DOMAIN dst \cup (0..(limit - 1)) |->
            IF i < limit THEN Pixel(V(sample[i])) ELSE dst[i]]

StretchInto(dst, sample, limit, mn0) ==
    LET vals == {sample[i] : i \in 0..(limit - 1)}
        mn == SetMin(vals \cup {mn0})
        range == StretchRange(sample, limit, mn0)
        V(x) == LET s == ((x - mn) * 255) \div range
                IN IF s < 0 THEN 0 ELSE IF s > 255 THEN 255 ELSE s
    IN [i \in DOMAIN dst \cup (0..(limit - 1)) |->
            IF i < limit THEN Pixel(V(sample[i])) ELSE dst[i]]

M_DeintStart_AlwaysEven(mode) == 0

\* int start = (mode == MODE_DEINT_ODD) ? 1 : 0
DeintStart(mode) == IF mode = MODE_DEINT_ODD THEN 1 ELSE 0

render_frame(src, srclen, dst, width, height, mode) ==
    LET npix == width * height
        cleared == ClearDst(dst, npix)
    IN IF srclen < 2
         THEN [dst |-> cleared, rdmax |-> -1, wrmax |-> npix - 1, range |-> 0]
       ELSE IF mode = MODE_RAW THEN
         LET limit == IF srclen < npix THEN srclen ELSE npix
             sample == [i \in 0..(limit - 1) |-> src[i + 1]]
         IN [dst |-> StretchInto(cleared, sample, limit, 255),
             rdmax |-> limit - 1,
             range |-> StretchRange(sample, limit, 255),
             wrmax |-> IF limit > npix THEN limit - 1 ELSE npix - 1]
       ELSE IF mode \in {MODE_DEINT_EVEN, MODE_DEINT_ODD} THEN
         LET start == DeintStart(mode)
             halflen == (srclen - start + 1) \div 2
             limit == IF halflen < npix THEN halflen ELSE npix
             sample == [i \in 0..(limit - 1) |-> src[start + i * 2 + 1]]
         IN [dst |-> StretchInto(cleared, sample, limit, 255),
             rdmax |-> IF limit > 0 THEN start + (limit - 1) * 2 ELSE -1,
             range |-> StretchRange(sample, limit, 255),
             wrmax |-> IF limit > npix THEN limit - 1 ELSE npix - 1]
       ELSE IF mode = MODE_16BIT_LE THEN
         LET half == srclen \div 2
             limit16 == IF half > npix THEN npix ELSE half
             sample == [i \in 0..(limit16 - 1) |->
                          src[i * 2 + 1] + src[i * 2 + 2] * 256]
         IN [dst |-> StretchInto(cleared, sample, limit16, 65535),
             rdmax |-> IF limit16 > 0 THEN (limit16 - 1) * 2 + 1 ELSE -1,
             range |-> StretchRange(sample, limit16, 65535),
             wrmax |-> IF limit16 > npix THEN limit16 - 1 ELSE npix - 1]
       ELSE [dst |-> cleared, rdmax |-> -1, wrmax |-> npix - 1, range |-> 0]

\* Inputs.  Source lengths around 0, around the pixel count and around twice
\* the pixel count; bytes either all 128 or stepping by 37 modulo 256.  The
\* ARGB buffer is as a full-width RAW render of a constant frame left it
\* (every pixel opaque black).
RenderWidths == {MinWidth, MaxWidth}
RenderModes == {MODE_RAW, MODE_DEINT_EVEN, MODE_DEINT_ODD, MODE_16BIT_LE}
RenderLens(npix) ==
    (0..3) \cup ((npix - 1)..(npix + 1)) \cup ((2 * npix - 1)..(2 * npix + 2))
RenderSrc(n, step) == [k \in 1..n |-> (128 + (k - 1) * step) % 256]
RenderDst0 == { [i \in 0..(ArgbCap - 1) |-> Pixel(0)] }

InitRender ==
    /\ RfInit /\ StripIdle /\ ClassIdle /\ ViewIdle
    /\ r_w \in RenderWidths
    /\ r_mode \in RenderModes
    /\ \E n \in RenderLens(r_w * FRAME_H_DEFAULT), step \in {0, 37} :
           r_src = RenderSrc(n, step)
    /\ r_dst \in RenderDst0
    /\ r_rdmax = -1
    /\ r_wrmax = -1
    /\ r_range = 0
    /\ r_done = 0

\* render_frame(pix, pixlen, argb, dw, dh, display_mode)  (line 660)
Render_Call ==
    /\ r_done = 0
    /\ LET r == render_frame(r_src, Len(r_src), r_dst, r_w, FRAME_H_DEFAULT, r_mode)
       IN /\ r_dst' = r.dst
          /\ r_rdmax' = r.rdmax
          /\ r_wrmax' = r.wrmax
          /\ r_range' = r.range
    /\ r_done' = 1
    /\ UNCHANGED <<r_src, r_w, r_mode, notRender>>

NextRender == Render_Call

SpecRender == InitRender /\ [][NextRender]_vars

\* Pixels a frame of srclen bytes decodes to in the given mode: bytes, even
\* bytes, odd bytes or byte pairs, none when under 2 bytes, at most npix.
DecodedCount(srclen, mode, npix) ==
    LET avail == IF srclen < 2 THEN 0
                 ELSE IF mode = 0 THEN srclen
                 ELSE IF mode = 1 THEN (srclen + 1) \div 2
                 ELSE srclen \div 2
    IN Min(avail, npix)
IsOpaqueGrey(px) ==
    /\ px[1] = 255
    /\ px[2] \in 0..255
    /\ px[2] = px[3]
    /\ px[3] = px[4]

\* C10: for every source length, width and mode, a call of render_frame
\* reads only source indices below srclen and writes only destination
\* indices below width x height; afterwards every pixel of the width x height
\* area past the decoded pixel count is 0 and every decoded pixel is opaque
\* grey (alpha ff, R = G = B).
C10_RenderInBounds ==
    r_done = 1 =>
        LET npix == r_w * 480
            n == DecodedCount(Len(r_src), r_mode, npix)
        IN /\ r_rdmax < Len(r_src)
           /\ r_wrmax < npix
           /\ DOMAIN r_dst = 0..(ArgbCap - 1)
           /\ \A i \in 0..(npix - 1) :
                 IF i < n THEN IsOpaqueGrey(r_dst[i]) ELSE r_dst[i] = <<0, 0, 0, 0>>

IsUniform(b) == \A i \in 1..Len(b) : b[i] = b[1]

\* C11: every intensity render_frame leaves in the width x height area is in
\* 0..255 in each of the four modes; for a source whose bytes are all equal
\* the contrast range is 1 (so the division is by 1, never by 0) and every
\* decoded pixel has intensity 0.
C11_IntensityRange ==
    r_done = 1 =>
        LET npix == r_w * 480
            n == DecodedCount(Len(r_src), r_mode, npix)
        IN /\ \A i \in 0..(npix - 1) : \A c \in 1..4 : r_dst[i][c] \in 0..255
           /\ n > 0 => r_range >= 1
           /\ (IsUniform(r_src) /\ n > 0) =>
                 /\ r_range = 1
                 /\ \A i \in 0..(n - 1) : r_dst[i] = <<255, 0, 0, 0>>

\* a uniform source longer than two bytes per pixel, decoded as 16-bit pairs
C11_Witness ==
    /\ r_done = 1 /\ r_mode = 3 /\ r_w = 10 /\ Len(r_src) = 2 * 10 * 480 + 2
    /\ IsUniform(r_src) /\ r_range = 1
    /\ r_dst[10 * 480 - 1] = <<255, 0, 0, 0>>

\* a 3-byte frame rendered odd-bytes-only over a buffer full of opaque
\* pixels: one pixel decoded, the rest of the area cleared
C10_Witness ==
    /\ r_done = 1 /\ r_mode = 2 /\ Len(r_src) = 3 /\ r_w = 10
    /\ r_rdmax = 1
    /\ r_dst[0] = <<255, 0, 0, 0>>
    /\ r_dst[1] = <<0, 0, 0, 0>>
    /\ r_dst[10 * 480] = <<255, 0, 0, 0>>


(***************************************************************************)
(* The viewer loop's filter pipeline (lines 539-660) and the keys that     *)
(* steer it (lines 502-531).  read_frame is taken here by its result: the  *)
(* value returned and the bytes fbuf[0 .. got).  render_frame is taken by  *)
(* its argument: shown is the pixel data handed to it.                     *)
(***************************************************************************)
size_tolerance == 20
avg_tolerance == 40

\* lo and hi of the size band (lines 579-580)
BandLo(locked) == (locked * (100 - size_tolerance)) \div 100
BandHi(locked) == (locked * (100 + size_tolerance)) \div 100

M_OutOfBand_Exclusive(pixlen, lo, hi) == pixlen <= lo \/ pixlen >= hi
M_OutOfBand_Never(pixlen, lo, hi) == FALSE

\* pixlen < lo || pixlen > hi  (line 581)
OutOfBand(pixlen, lo, hi) == pixlen < lo \/ pixlen > hi

\* for (i = 0; i < qn; i++) qsum += pix[i]  (line 590), halved like SumAbsDiff
RECURSIVE SumBytes(_, _, _)
SumBytes(p, lo, hi) ==
    IF lo > hi THEN 0
    ELSE IF lo = hi THEN p[lo + 1]
    ELSE LET mid == (lo + hi) \div 2
         IN SumBytes(p, lo, mid) + SumBytes(p, mid + 1, hi)

\* memcpy(dst + doff, src, cnt) into a buffer known by the bytes written to
\* it so far
Overwrite(dst, doff, src, cnt) ==
    [i \in 1..(IF Len(dst) > doff + cnt THEN Len(dst) ELSE doff + cnt) |->
        IF i > doff /\ i <= doff + cnt THEN src[i - doff] ELSE dst[i]]

M_SavedBytes_FromSecond(pix, pixlen) == SubSeq(pix, 2, pixlen)

\* fwrite(pix, 1, pixlen, f) into the freshly truncated file  (lines 633-635)
SavedBytes(pix, pixlen) == SubSeq(pix, 1, pixlen)

M_BrightJump_Never(qavg, last) == FALSE
M_BrightJump_AtTolerance(qavg, last) == Abs(qavg - last) >= avg_tolerance

\* diff = abs(qavg - last_avg); diff > avg_tolerance  (lines 600-601)
BrightJump(qavg, last) == Abs(qavg - last) > avg_tolerance

M_AutoLock_WheneverUnlocked(locked, shownBefore, pixlen) ==
    IF locked = 0 THEN pixlen ELSE locked

\* if (locked_size == 0 && frames == 0) locked_size = pixlen  (lines 614-617)
AutoLock(locked, shownBefore, pixlen) ==
    IF locked = 0 /\ shownBefore = 0 THEN pixlen ELSE locked

\* What read_frame hands back: nothing, a failure, or a frame.
NoFrame == [got |-> 0, mem |-> <<>>]
FailedRead == [got |-> -1, mem |-> <<>>]
PlainFrame(n, v) == [got |-> n, mem |-> [i \in 1..n |-> v]]
MetaFrame(n, v) ==
    [got |-> n + MetaLen,
     mem |-> <<7, 0, 232, 3, 0, 0, n % 256, n \div 256, 0, 0>> \o [i \in 1..n |-> v]]
StripedFrame(n) == [got |-> n, mem |-> [i \in 1..n |-> IF i % 2 = 1 THEN 0 ELSE 255]]
ViewFrames ==
    { NoFrame, FailedRead, PlainFrame(MinFrame - 1, 128),
      PlainFrame(799, 128), PlainFrame(800, 128), PlainFrame(1000, 128),
      PlainFrame(1200, 128), PlainFrame(1201, 128),
      MetaFrame(1000, 128), PlainFrame(MinFrame, 5), PlainFrame(MinFrame, 200),
      StripedFrame(MinFrame), MetaFrame(MinFrame - 5, 128), PlainFrame(1001, 128) }

\* Frames that differ in brightness and length only, for the brightness
\* gates, the hold and the lock.
GateFrames ==
    { PlainFrame(MinFrame, 128), PlainFrame(MinFrame, 168), PlainFrame(MinFrame, 169),
      PlainFrame(2 * MinFrame, 169), PlainFrame(MinFrame, 14), PlainFrame(MinFrame, 0) }

InitView ==
    /\ RfInit /\ StripIdle /\ ClassIdle /\ RenderIdle
    /\ nfs \in {0, 150}
    /\ ViewLocalsInit

\* The frames of the model as the gates see them, stripped of the header,
\* and the two sums over each, computed once.
GateViews ==
    { LET st == strip_meta_header(f.mem, 0, f.got)
      IN SubSeq(st.mem, st.pix + 1, st.pix + st.pixlen) :
            f \in ViewFrames \cup GateFrames }
NdOfView == [b \in GateViews |-> neighbor_diff(b, Len(b))]
QsumOfView == [b \in GateViews |-> SumBytes(b, 0, Min(Len(b), PrefixCap) - 1)]

\* neighbor_diff(pix, pixlen) and the brightness sum over the first qn bytes
\* (pixlen is Len(pix) at both calls)
NeighborDiffOf(pix, pixlen) ==
    IF pix \in GateViews THEN NdOfView[pix] ELSE neighbor_diff(pix, pixlen)
QsumOf(pix, qn) ==
    IF pix \in GateViews THEN QsumOfView[pix] ELSE SumBytes(pix, 0, qn - 1)

\* at the loop head, alive, with steps left in this run
Running == mpc = "loop" /\ g_running = 1 /\ v_out # "fpe" /\ v_steps < v_cap

M_RenderAndPresent_Skipped(count) == count

\* render_frame, SDL_UpdateTexture and SDL_RenderPresent at the end of an
\* iteration, counted
RenderAndPresent(count) == count + 1

\* One loop iteration from the loop head, where the flag is set, through
\* read_frame's return to the next loop head.  f is what read_frame returns,
\* opened whether fopen would succeed, flag the value of g_running when
\* read_frame returns: nothing between lines 539 and 668 reads it again.
View_Pipeline(f, opened, flag) ==
    /\ Running
    /\ v_steps' = v_steps + 1
    /\ v_in' = f
    /\ g_running' = flag
    /\ UNCHANGED <<mpc, held, buf, off, fid, got, notView, nfs, stripe_filter, accumulate,
                   frame_hold, bright_thresh>>
    /\ IF f.got <= 0 THEN
         /\ v_out' = "none" /\ v_pixlen' = 0 /\ v_fopen' = "none" /\ v_savemsg' = "none"
         /\ UNCHANGED <<save_next, holdVars, accumVars, countVars, saved, shown, renders>>
       ELSE IF f.got < MinFrame THEN
         /\ v_out' = "small" /\ v_pixlen' = 0 /\ v_fopen' = "none" /\ v_savemsg' = "none"
         /\ UNCHANGED <<save_next, holdVars, accumVars, countVars, saved, shown, renders>>
       ELSE
         LET st == strip_meta_header(f.mem, 0, f.got)
             fpix == SubSeq(st.mem, st.pix + 1, st.pix + st.pixlen)
             acc == accumulate = 1 /\ nfs # 0
             space == nfs - accum_off
             copy == IF st.pixlen < space THEN st.pixlen ELSE space
             abuf == IF copy > 0 THEN Overwrite(accum_buf, accum_off, fpix, copy)
                     ELSE accum_buf
             aoff == IF copy > 0 THEN accum_off + copy ELSE accum_off
             partial == acc /\ aoff < nfs
             pix == IF acc THEN SubSeq(abuf, 1, aoff) ELSE fpix
             pixlen == IF acc THEN aoff ELSE st.pixlen
             is_interleaved == IsInterleaved(NeighborDiffOf(pix, pixlen))
             striped == stripe_filter = 1 /\ is_interleaved
             banded == frame_hold = 1 /\ locked_size > 0
             sized == banded /\ OutOfBand(pixlen, BandLo(locked_size), BandHi(locked_size))
             qn == IF pixlen < PrefixCap THEN pixlen ELSE PrefixCap
             qavg == QsumOf(pix, qn) \div qn
             dark == qavg < bright_thresh
             jumpy == frame_hold = 1 /\ last_avg >= 0 /\ BrightJump(qavg, last_avg)
         IN /\ all_frames' = all_frames + 1
            /\ accum_buf' = IF acc THEN abuf ELSE accum_buf
            /\ accum_off' = IF acc THEN (IF partial THEN aoff ELSE 0) ELSE accum_off
            /\ IF partial THEN
                 /\ v_out' = "accum" /\ v_pixlen' = 0 /\ v_fopen' = "none" /\ v_savemsg' = "none"
                 /\ UNCHANGED <<save_next, holdVars, frames, skip_stripe, skip_dark,
                                skip_size, skip_bright, saved, shown, renders>>
               ELSE IF striped THEN
                 /\ v_out' = "stripe" /\ v_pixlen' = pixlen /\ v_fopen' = "none" /\ v_savemsg' = "none"
                 /\ skip_stripe' = skip_stripe + 1
                 /\ UNCHANGED <<save_next, holdVars, frames, skip_dark,
                                skip_size, skip_bright, saved, shown, renders>>
               ELSE IF sized THEN
                 /\ v_out' = "size" /\ v_pixlen' = pixlen /\ v_fopen' = "none" /\ v_savemsg' = "none"
                 /\ skip_size' = skip_size + 1
                 /\ UNCHANGED <<save_next, holdVars, frames, skip_stripe,
                                skip_dark, skip_bright, saved, shown, renders>>
               ELSE IF qn = 0 THEN
                 \* qsum / qn with qn = 0: the process dies of SIGFPE
                 /\ v_out' = "fpe" /\ v_pixlen' = pixlen /\ v_fopen' = "none" /\ v_savemsg' = "none"
                 /\ UNCHANGED <<save_next, holdVars, frames, skip_stripe, skip_dark,
                                skip_size, skip_bright, saved, shown, renders>>
               ELSE IF dark THEN
                 /\ v_out' = "dark" /\ v_pixlen' = pixlen /\ v_fopen' = "none" /\ v_savemsg' = "none"
                 /\ skip_dark' = skip_dark + 1
                 /\ UNCHANGED <<save_next, holdVars, frames, skip_stripe,
                                skip_size, skip_bright, saved, shown, renders>>
               ELSE IF jumpy THEN
                 /\ v_out' = "bright" /\ v_pixlen' = pixlen /\ v_fopen' = "none" /\ v_savemsg' = "none"
                 /\ skip_bright' = skip_bright + 1
                 /\ UNCHANGED <<save_next, holdVars, frames, skip_stripe,
                                skip_dark, skip_size, saved, shown, renders>>
               ELSE
                 /\ v_out' = "shown" /\ v_pixlen' = pixlen
                 /\ IF frame_hold = 1
                      THEN /\ hold_buf' = Overwrite(hold_buf, 0, pix, pixlen)
                           /\ hold_len' = pixlen
                           /\ hold_valid' = 1
                           /\ last_avg' = qavg
                           /\ locked_size' = AutoLock(locked_size, frames, pixlen)
                      ELSE UNCHANGED holdVars
                 /\ frames' = frames + 1
                 /\ saved' = IF save_next # 0 /\ opened
                               THEN SavedBytes(pix, pixlen) ELSE saved
                 /\ v_fopen' = IF save_next = 0 THEN "none"
                               ELSE IF opened THEN "ok" ELSE "fail"
                 /\ v_savemsg' = IF save_next # 0 /\ opened THEN "saved" ELSE "none"
                 /\ save_next' = 0
                 /\ shown' = pix
                 /\ renders' = RenderAndPresent(renders)
                 /\ UNCHANGED <<skip_stripe, skip_dark, skip_size, skip_bright>>

M_View_Iterate_DropsUncounted ==
    /\ Running
    /\ all_frames' = all_frames + 1
    /\ v_steps' = v_steps + 1
    /\ UNCHANGED <<rfVars, notView, cfgVars, holdVars, accumVars, outVars,
                   frames, skip_stripe, skip_dark, skip_size, skip_bright>>

\* an iteration during which no signal arrives
View_Frame(f, opened) == View_Pipeline(f, opened, 1)

\* An iteration during whose read_frame call sig_handler clears the flag:
\* the loop test of line 162 ends the call, which returns the bytes
\* gathered so far (line 190), any number from 0 up.
View_Interrupted ==
    \E f \in {g \in ViewFrames : g.got >= 0} : \E opened \in BOOLEAN :
        View_Pipeline(f, opened, 0)

View_Iterate == \E f \in ViewFrames : \E opened \in BOOLEAN : View_Frame(f, opened)

\* The keys, handled at the loop head between two frames.
KeySame ==
    /\ v_steps' = v_steps + 1
    /\ UNCHANGED <<rfVars, notView, nfs, countVars, outVars>>

\* S: stripe filter on / off
Key_S ==
    /\ Running
    /\ stripe_filter' = 1 - stripe_filter
    /\ KeySame
    /\ UNCHANGED <<accumulate, frame_hold, bright_thresh, save_next, holdVars, accumVars>>

\* A: accumulation on / off, the accumulation restarts
Key_A ==
    /\ Running
    /\ accumulate' = 1 - accumulate
    /\ accum_off' = 0
    /\ KeySame
    /\ UNCHANGED <<stripe_filter, frame_hold, bright_thresh, save_next, holdVars, accum_buf>>

M_Key_H_KeepsState ==
    /\ Running
    /\ frame_hold' = 1 - frame_hold
    /\ UNCHANGED holdVars
    /\ KeySame
    /\ UNCHANGED <<stripe_filter, accumulate, bright_thresh, save_next, accumVars>>

\* H: frame hold on / off; turning it off forgets lock, brightness and hold
Key_H ==
    /\ Running
    /\ frame_hold' = 1 - frame_hold
    /\ IF frame_hold' = 0
         THEN /\ locked_size' = 0 /\ last_avg' = -1 /\ hold_valid' = 0
              /\ UNCHANGED <<hold_buf, hold_len>>
         ELSE UNCHANGED holdVars
    /\ KeySame
    /\ UNCHANGED <<stripe_filter, accumulate, bright_thresh, save_next, accumVars>>

M_Key_L_IgnoresValid ==
    /\ Running
    /\ locked_size' = IF hold_len > 0 THEN hold_len ELSE 0
    /\ KeySame
    /\ UNCHANGED <<stripe_filter, accumulate, frame_hold, bright_thresh, save_next,
                   last_avg, hold_buf, hold_len, hold_valid, accumVars>>

\* L: lock the size band to the held frame, or clear the lock
Key_L ==
    /\ Running
    /\ locked_size' = IF hold_valid # 0 /\ hold_len > 0 THEN hold_len ELSE 0
    /\ KeySame
    /\ UNCHANGED <<stripe_filter, accumulate, frame_hold, bright_thresh, save_next,
                   last_avg, hold_buf, hold_len, hold_valid, accumVars>>

M_Key_B_Unclamped ==
    /\ Running
    /\ bright_thresh' = bright_thresh - 5
    /\ KeySame
    /\ UNCHANGED <<stripe_filter, accumulate, frame_hold, save_next, holdVars, accumVars>>

\* B: lower the brightness floor by 5, to 0 from 2 or less
Key_B ==
    /\ Running
    /\ bright_thresh' = IF bright_thresh > 2 THEN bright_thresh - 5 ELSE 0
    /\ KeySame
    /\ UNCHANGED <<stripe_filter, accumulate, frame_hold, save_next, holdVars, accumVars>>

\* D: save the next displayed frame
Key_D ==
    /\ Running
    /\ save_next' = 1
    /\ KeySame
    /\ UNCHANGED <<stripe_filter, accumulate, frame_hold, bright_thresh, holdVars, accumVars>>

NextView ==
    \/ View_Iterate
    \/ Key_S
    \/ Key_A
    \/ Key_H
    \/ Key_L
    \/ Key_B
    \/ Key_D
    \/ View_Quit
    \/ SigHandler

SpecView == InitView /\ [][NextView]_vars

\* The viewer with signals arriving inside read_frame as well.
NextCancel ==
    \/ NextView
    \/ View_Interrupted

SpecCancel == InitView /\ [][NextCancel]_vars

\* The same viewer after a negotiation in which the device reported a
\* maximum frame size of 0x80000001: (int)negotiated_frame_size is negative.
InitWide ==
    /\ RfInit /\ StripIdle /\ ClassIdle /\ RenderIdle
    /\ nfs = -2147483647
    /\ ViewLocalsInit

SpecWide == InitWide /\ [][NextView]_vars

\* bytes accum_buf and hold_buf are allocated with: MAX_FRAME_SIZE, scaled
\* to the longest frame read_frame hands the viewer in this model
ViewBufSz == 1201

\* The same viewer after a negotiation in which the device reported a
\* maximum frame size one above the capacity of the buffers.
InitBig ==
    /\ RfInit /\ StripIdle /\ ClassIdle /\ RenderIdle
    /\ nfs = ViewBufSz + 1
    /\ ViewLocalsInit

SpecBig == InitBig /\ [][NextView]_vars

\* The viewer fed the frames of GateFrames, under the keys H, L and B, for
\* one step more than SpecView takes.
InitGate ==
    /\ RfInit /\ StripIdle /\ ClassIdle /\ RenderIdle
    /\ nfs = 0
    /\ ViewLocals /\ v_cap = MaxSteps + 1

Gate_Iterate == \E f \in GateFrames : View_Frame(f, TRUE)

NextGate ==
    \/ Gate_Iterate
    \/ Key_H
    \/ Key_L
    \/ Key_B

SpecGate == InitGate /\ [][NextGate]_vars

\* C9: with frame hold on and locked_size = 1000, a frame that reaches the
\* size-band gate with 800 or 1200 bytes passes it, and one with 799 or
\* 1201 bytes is rejected there (counted in skip_size, not displayed); in
\* general the gate rejects exactly the lengths below 800 or above 1200.
C9_SizeBandBounds ==
    [][ ( /\ all_frames' = all_frames + 1
          /\ frame_hold = 1 /\ locked_size = 1000
          /\ v_out' \notin {"accum", "stripe"} ) =>
            /\ v_pixlen' \in {800, 1200} =>
                  (v_out' # "size" /\ skip_size' = skip_size)
            /\ v_pixlen' \in {799, 1201} =>
                  /\ v_out' = "size" /\ skip_size' = skip_size + 1
                  /\ frames' = frames /\ shown' = shown
            /\ v_out' = "size" <=> (v_pixlen' < 800 \/ v_pixlen' > 1200) ]_vars

\* a 1000-byte frame was displayed and locked the band, then a 799-byte
\* frame was rejected by the size gate
C9_Witness ==
    /\ frame_hold = 1 /\ locked_size = 1000
    /\ v_out = "size" /\ v_pixlen = 799
    /\ skip_size = 1 /\ frames = 1 /\ Len(shown) = 1000

\* C13: once the keep-running flag is cleared it stays cleared; a loop test
\* that sees it cleared starts no fetch, so that with the flag cleared a fetch
\* is only ever the one that was in flight, and once that one has completed
\* no fetch follows; and, every fetch returning, the capture loop terminates
\* with the interfaces released.
C13_Cancellation ==
    /\ [][ g_running = 0 =>
              /\ g_running' = 0
              /\ mpc # "rf_xfer" => mpc' # "rf_xfer"
              /\ mpc = "rf_check" => (mpc' = "got" /\ got' = off) ]_vars
    /\ (g_running = 0) ~> (mpc = "done" /\ held = {})

\* the flag is cleared while a fetch is in flight, in a call that has
\* gathered bytes and could take more
C13_Witness ==
    /\ g_running = 0 /\ mpc = "rf_xfer"
    /\ off \in 1..(BufSz - 1) /\ fid >= 0 /\ stable
    /\ held # {}

\* packets with a plausible header, the end-of-frame bit and no error bit
EofPackets ==
    { p \in Packets : /\ ValidHeader(p)
                      /\ BitAnd(p[2], BFH_ERR) = 0
                      /\ BitAnd(p[2], BFH_EOF) # 0 }

\* C14: a packet with a plausible header, no error bit and the end-of-frame
\* bit ends the read_frame call at that packet, with the bytes gathered by
\* then as its result, whether its identity bit equals the tracked one,
\* differs from it, or none is tracked yet: a fetch after which the call has
\* not so ended did not deliver such a packet.
C14_EofEndsCall ==
    [][ (mpc = "rf_xfer" /\ ~(mpc' = "got" /\ got' = off' /\ got' >= 0)) =>
            \A p \in EofPackets : ~RF_Packet(p) ]_vars

\* a call returned below the buffer size with the flag set, every packet
\* having had the same identity: the last packet carried end-of-frame
C14_Witness ==
    /\ mpc = "got" /\ g_running = 1 /\ stable /\ err = 0
    /\ got = off /\ off \in 1..(BufSz - 1) /\ fid >= 0

\* C15: the accumulated count is always within 0..bufsz; payload beyond the
\* buffer is dropped, the buffer holding bufsz bytes and no more; a call whose
\* buffer fills without a sealing packet returns bufsz; and read_frame's
\* result is -1 or within 0..bufsz.
C15_CountWithinBuffer ==
    /\ off \in 0..BufSz
    /\ Len(buf) = BufSz
    /\ mpc = "rf_xfer" => off < BufSz
    /\ mpc = "got" =>
          /\ got \in {-1} \cup 0..BufSz
          /\ got # -1 => got = off
          /\ off = BufSz => got \in {-1, BufSz}

\* a packet whose payload did not fit filled the buffer, and the call
\* returned the buffer size
C15_Witness ==
    /\ mpc = "got" /\ got = BufSz /\ off = BufSz
    /\ ~stable /\ err = 0 /\ fid >= 0 /\ g_running = 1
    /\ fresh = 0..(BufSz - 1)

\* C16: a fetch that times out changes neither the accumulated bytes and
\* their count nor the tracked identity, is not reported as an error (the
\* call does not return), and leaves read_frame at its loop test in the very
\* state in which that test last passed, so that the frames that follow are
\* those that would have followed without the timeout.
C16_TimeoutTransparent ==
    [][ /\ RF_Retry =>
              /\ buf' = buf /\ off' = off /\ fid' = fid
              /\ got' = got /\ held' = held /\ g_running' = g_running
              /\ UNCHANGED <<histVars, notRf>>
              /\ mpc' = "rf_check"
              /\ off' < BufSz
        /\ (mpc = "rf_check" /\ mpc' = "rf_xfer") =>
              UNCHANGED <<g_running, held, buf, off, fid, got, histVars, notRf>> ]_vars

\* a timeout has just struck in a call that holds bytes under a tracked
\* identity; the flag being set, the loop test leads back to the fetch
C16_Witness ==
    /\ mpc = "rf_check" /\ g_running = 1
    /\ off \in 1..(BufSz - 1) /\ fid >= 0 /\ stable /\ Len(cat) = off

\* the frame read in the last iteration without its metadata header
StrippedIn(f) ==
    LET st == strip_meta_header(f.mem, 0, f.got)
    IN SubSeq(st.mem, st.pix + 1, st.pix + st.pixlen)

\* this step displayed a frame
Displayed == frames' = frames + 1

C17_MinSizeOnStripped ==
    Len(StrippedIn(v_in)) < MinFrame => v_out \in {"idle", "none", "small"}

\* The bytes the gates of this step look at: the frame after the metadata
\* strip, or with accumulation the completed accumulation.
GatePix ==
    IF accumulate = 1 /\ nfs # 0 THEN SubSeq(accum_buf', 1, nfs)
    ELSE StrippedIn(v_in')

\* this step took a frame as far as the gates
AtGates == all_frames' = all_frames + 1 /\ v_out' # "accum" /\ Len(GatePix) > 0

\* average of the first 4000 bytes at most, rounded down
AvgOf(pix) ==
    LET qn == Min(Len(pix), PrefixCap)
    IN QsumOf(pix, qn) \div qn

\* The first gate, in the order stripe, size band, brightness floor,
\* brightness continuity, that the frame fails under the settings and the
\* stabilizer state of before the step; "shown" if it fails none.
FirstFailing(pix) ==
    LET nd == NeighborDiffOf(pix, Len(pix))
        avg == AvgOf(pix)
    IN IF stripe_filter = 1 /\ nd.num > 25 * nd.den THEN "stripe"
       ELSE IF /\ frame_hold = 1 /\ locked_size > 0
               /\ \/ Len(pix) < (locked_size * 80) \div 100
                  \/ Len(pix) > (locked_size * 120) \div 100 THEN "size"
       ELSE IF avg < bright_thresh THEN "dark"
       ELSE IF /\ frame_hold = 1 /\ last_avg >= 0
               /\ (avg - last_avg > 40 \/ last_avg - avg > 40) THEN "bright"
       ELSE "shown"

Bump(which, name) == IF which = name THEN 1 ELSE 0

\* C18: a frame that reaches the gates ends at the first gate it fails in
\* the order stripe, size band, brightness floor, brightness continuity, and
\* is displayed if it fails none; the counter of that gate goes up by one
\* and no other rejection counter changes.
C18_FirstFailingGate ==
    [][ AtGates =>
          LET first == FirstFailing(GatePix)
          IN /\ v_out' = first
             /\ skip_stripe' = skip_stripe + Bump(first, "stripe")
             /\ skip_size' = skip_size + Bump(first, "size")
             /\ skip_dark' = skip_dark + Bump(first, "dark")
             /\ skip_bright' = skip_bright + Bump(first, "bright")
             /\ frames' = frames + Bump(first, "shown") ]_vars

\* with the band locked to 1000 bytes, a striped frame of 100 bytes, which
\* the size band would have rejected as well, was counted as striped
C18_Witness ==
    /\ v_out = "stripe" /\ v_pixlen = 100 /\ v_in.got = 100
    /\ stripe_filter = 1 /\ frame_hold = 1 /\ locked_size = 1000
    /\ skip_stripe = 1 /\ skip_size = 0 /\ skip_dark = 0 /\ skip_bright = 0

\* C19: a frame rejected by a gate leaves the size lock, the last accepted
\* brightness, the hold buffer, its length and validity, the displayed count,
\* the pending save request, the file and the displayed bytes as they were;
\* the total count and the counter of the rejecting gate go up by one, the
\* other counters stay, and without accumulation nothing else of the
\* viewer's state changes.
C19_RejectionKeepsState ==
    [][ (AtGates /\ FirstFailing(GatePix) # "shown") =>
          /\ UNCHANGED <<locked_size, last_avg, hold_buf, hold_len, hold_valid>>
          /\ UNCHANGED <<frames, save_next, saved, shown>>
          /\ UNCHANGED <<nfs, stripe_filter, accumulate, frame_hold, bright_thresh>>
          /\ all_frames' = all_frames + 1
          /\ (skip_stripe' + skip_size' + skip_dark' + skip_bright')
                = (skip_stripe + skip_size + skip_dark + skip_bright) + 1
          /\ (accumulate = 0 \/ nfs = 0) => UNCHANGED accumVars ]_vars

\* with the stripe filter off a frame of brightness 127 was displayed and
\* locked the band; the next frame, 73 levels brighter, was rejected by the
\* continuity gate: lock, brightness, hold and displayed bytes are as before
C19_Witness ==
    /\ v_out = "bright" /\ skip_bright = 1 /\ frames = 1 /\ all_frames = 2
    /\ locked_size = 100 /\ last_avg = 127 /\ hold_len = 100 /\ hold_valid = 1
    /\ Len(shown) = 100 /\ shown[2] = 255 /\ hold_buf = shown
    /\ v_in.got = 100 /\ v_in.mem[1] = 200

\* C20: with frame hold on and a lock L > 0, a frame of n bytes is rejected
\* by the size band exactly when n < 0.8 L or n > 1.2 L in exact arithmetic,
\* that is 5 n < 4 L or 5 n > 6 L; with hold off or no lock the size band
\* rejects nothing.
C20_SizeBandExact ==
    [][ (AtGates /\ v_out' # "stripe") =>
          LET n == Len(GatePix)
          IN v_out' = "size" <=>
                /\ frame_hold = 1 /\ locked_size > 0
                /\ (5 * n < 4 * locked_size \/ 5 * n > 6 * locked_size) ]_vars

(***************************************************************************)
(* The display width: the keys +, -, and R of the viewer's event loop.      *)
(***************************************************************************)
tex_w == 1284
tex_h == 480
\* number of pixels of the argb buffer the renderer draws into
ArgbPixels == tex_w * tex_h

M_Key_Plus_Unclamped(shift) ==
    /\ mpc = "loop" /\ g_running = 1
    /\ dw' = dw + (IF shift # 0 THEN 10 ELSE 1)
    /\ UNCHANGED notDisp

\* + : one column wider, ten with shift, up to the texture width
Key_Plus(shift) ==
    /\ mpc = "loop" /\ g_running = 1
    /\ LET w == dw + (IF shift # 0 THEN 10 ELSE 1)
       IN dw' = IF w > tex_w THEN tex_w ELSE w
    /\ UNCHANGED notDisp

\* - : one column narrower, ten with shift, down to 10
Key_Minus(shift) ==
    /\ mpc = "loop" /\ g_running = 1
    /\ LET w == dw - (IF shift # 0 THEN 10 ELSE 1)
       IN dw' = IF w < MinWidth THEN MinWidth ELSE w
    /\ UNCHANGED notDisp

\* R: back to the default width
Key_R ==
    /\ mpc = "loop" /\ g_running = 1
    /\ dw' = FRAME_W_DEFAULT
    /\ UNCHANGED notDisp

InitWidth ==
    /\ RfInit /\ StripIdle /\ ClassIdle /\ RenderIdle
    /\ nfs = 0
    /\ ViewLocalsInit

NextWidth ==
    \/ \E shift \in {0, 1} : Key_Plus(shift)
    \/ \E shift \in {0, 1} : Key_Minus(shift)
    \/ Key_R

SpecWidth == InitWidth /\ [][NextWidth]_vars

\* C21: with accumulation on and a target T > 0, the fragment read is
\* appended at the offset; while the accumulated length is below T nothing
\* reaches the gates or the display; the frame passed on has length exactly
\* T, made of the bytes gathered and the head of the completing fragment,
\* and the offset is 0 afterwards.  With accumulation off or T = 0 the frame
\* goes to the gates as it is and the accumulation is left alone.  The
\* accumulation key restarts the offset at 0.  (nfs is T as an int: negative
\* for T above 2^31 - 1, and then no length can equal it.)
C21_Accumulation ==
    [][ /\ all_frames' = all_frames + 1 =>
              LET frag == StrippedIn(v_in')
              IN IF accumulate = 1 /\ nfs # 0
                   THEN IF v_out' = "accum"
                          THEN /\ accum_off' = accum_off + Len(frag)
                               /\ accum_off' < nfs
                               /\ SubSeq(accum_buf', accum_off + 1, accum_off') = frag
                               /\ SubSeq(accum_buf', 1, accum_off)
                                     = SubSeq(accum_buf, 1, accum_off)
                               /\ UNCHANGED <<frames, skip_stripe, skip_size,
                                              skip_dark, skip_bright, shown, saved>>
                          ELSE /\ v_pixlen' = nfs
                               /\ accum_off + Len(frag) >= nfs
                               /\ accum_off' = 0
                               /\ SubSeq(accum_buf', 1, accum_off)
                                     = SubSeq(accum_buf, 1, accum_off)
                               /\ SubSeq(accum_buf', accum_off + 1, nfs)
                                     = SubSeq(frag, 1, nfs - accum_off)
                               /\ v_out' = "shown" =>
                                     shown' = SubSeq(accum_buf', 1, nfs)
                   ELSE /\ v_out' # "accum"
                        /\ v_pixlen' = Len(frag)
                        /\ UNCHANGED accumVars
                        /\ v_out' = "shown" => shown' = frag
        /\ accumulate' # accumulate => accum_off' = 0 ]_vars

\* C22: every displayed frame, with frame hold on or off, leaves the hold
\* buffer holding exactly that frame's bytes, the hold length its length and
\* the last accepted brightness its brightness.
C22_HoldAlwaysUpdated ==
    [][ Displayed =>
          /\ hold_len' = v_pixlen'
          /\ SubSeq(hold_buf', 1, hold_len') = shown'
          /\ last_avg' = AvgOf(shown') ]_vars

\* this step pressed H, this step pressed L
PressedH == frame_hold' # frame_hold
PressedL == Key_L

\* C23: the size lock changes only by the lock key, by the hold key, or on
\* a displayed frame when frame hold is on, no lock is set and no frame has
\* been displayed before, and then to that frame's length; the displayed
\* count never goes down, so this happens at most once, and from the first
\* displayed frame on only the two keys change the lock.
C23_AutoLockOnce ==
    [][ /\ frames' >= frames
        /\ locked_size' # locked_size =>
              \/ PressedH
              \/ PressedL
              \/ /\ frames = 0 /\ frames' = 1 /\ v_out' = "shown"
                 /\ frame_hold = 1 /\ locked_size = 0
                 /\ locked_size' = v_pixlen' /\ locked_size' = Len(shown')
        /\ (Displayed /\ frame_hold = 1 /\ locked_size = 0 /\ frames = 0) =>
              locked_size' = v_pixlen'
        /\ (Displayed /\ frames > 0) => locked_size' = locked_size ]_vars

\* the first frame locked the band, hold was turned off and on again, which
\* cleared the lock, and the next displayed frame did not lock it anew
C23_Witness ==
    /\ frames = 2 /\ v_out = "shown" /\ frame_hold = 1 /\ locked_size = 0
    /\ hold_valid = 1 /\ hold_len = 2 * MinFrame /\ v_steps = 4

\* C24: a frame that reaches the brightness-continuity gate, of brightness b
\* (the integer mean of its first 4000 bytes at most), is rejected there
\* exactly when frame hold is on, a last accepted brightness p >= 0 exists
\* and b and p are more than 40 apart; 40 apart it is displayed, and
\* without a baseline or with hold off the gate rejects nothing.
C24_Continuity ==
    [][ (AtGates /\ v_out' \in {"bright", "shown"}) =>
          LET b == AvgOf(GatePix)
              apart == IF b > last_avg THEN b - last_avg ELSE last_avg - b
          IN /\ v_out' = "bright" <=>
                   (frame_hold = 1 /\ last_avg >= 0 /\ apart > 40)
             /\ (last_avg >= 0 /\ apart = 40) => v_out' = "shown"
             /\ (last_avg = -1 \/ frame_hold = 0) => v_out' = "shown"
             /\ v_out' = "bright" =>
                   (skip_bright' = skip_bright + 1 /\ frames' = frames) ]_vars

\* after a frame of brightness 128 was accepted, one of brightness 169, in
\* the size band, was rejected by the continuity gate
C24_Witness ==
    /\ v_out = "bright" /\ skip_bright = 1 /\ frame_hold = 1
    /\ last_avg = 128 /\ locked_size = MinFrame
    /\ v_in.got = MinFrame /\ v_in.mem[1] = 169

\* C25: the brightness floor is always one of 15, 10, 5, 0; it starts at
\* 15, B lowers it by 5 and leaves it at 0, nothing raises it; a frame that
\* reaches the floor gate is rejected there exactly when its brightness is
\* below the floor, so that with the floor at 0 the gate rejects nothing.
C25_BrightnessFloor ==
    /\ bright_thresh = 15
    /\ [](bright_thresh \in {15, 10, 5, 0})
    /\ [][ /\ bright_thresh' <= bright_thresh
           /\ Key_B => bright_thresh' =
                          (IF bright_thresh >= 5 THEN bright_thresh - 5 ELSE 0)
           /\ bright_thresh' # bright_thresh => Key_B
           /\ (AtGates /\ v_out' \in {"dark", "bright", "shown"}) =>
                 /\ v_out' = "dark" <=> AvgOf(GatePix) < bright_thresh
                 /\ v_out' = "dark" => skip_dark' = skip_dark + 1
           /\ bright_thresh = 0 => skip_dark' = skip_dark
           /\ (bright_thresh = 0 /\ AtGates) => v_out' # "dark" ]_vars

\* B was pressed three times and then a frame of brightness 0 was displayed
C25_Witness ==
    /\ bright_thresh = 0 /\ v_out = "shown" /\ frames = 1
    /\ last_avg = 0 /\ skip_dark = 0 /\ v_in.mem[1] = 0 /\ v_steps = 4

\* C26: turning frame hold off sets the size lock to 0 and the last accepted
\* brightness to -1; both stay so while hold is off and after it is turned
\* on again until a frame is displayed, so that no frame processed in
\* between, and so not the first one after hold is on again, is rejected by
\* the size band or by the continuity gate.
C26_HoldOffClears ==
    /\ [](hold_valid = 0 => (locked_size = 0 /\ last_avg = -1))
    /\ [][ /\ (frame_hold = 1 /\ frame_hold' = 0) =>
                 (locked_size' = 0 /\ last_avg' = -1 /\ hold_valid' = 0)
           /\ (frame_hold = 0 /\ frame_hold' = 1) => hold_valid' = 0
           /\ (hold_valid = 0 /\ ~Displayed) => hold_valid' = 0
           /\ (hold_valid = 0 /\ AtGates) =>
                 (v_out' \notin {"size", "bright"}
                    /\ skip_size' = skip_size /\ skip_bright' = skip_bright) ]_vars

\* two frames were displayed with hold turned off, and on again, before the
\* second: that one, 200 bytes of brightness 169, met neither a size lock
\* nor a baseline, and set no lock
C26_Witness ==
    /\ v_steps = 4 /\ frames = 2 /\ v_out = "shown" /\ frame_hold = 1
    /\ skip_size = 0 /\ skip_bright = 0
    /\ v_in.got = 2 * MinFrame /\ last_avg = 169 /\ locked_size = 0
    /\ hold_len = 2 * MinFrame

\* C27: the lock key sets the size lock to the length of the frame last
\* held whenever a frame has been held in the session (hold_len > 0),
\* whether frame hold is on or off now and whatever happened to it since;
\* it leaves the lock at 0 only when no frame has ever been held.
C27_LockFromLastHeld ==
    [][ Key_L => locked_size' = hold_len ]_vars

\* C28: a frame that reaches the gates is rejected as striped, and the
\* stripe counter goes up, exactly when the stripe filter is on and the
\* frame's neighbour difference exceeds 25; the counter changes in no other
\* way, and not at all while the filter is off.
C28_StripeGate ==
    [][ /\ AtGates =>
              LET nd == NeighborDiffOf(GatePix, Len(GatePix))
              IN /\ v_out' = "stripe" <=>
                       (stripe_filter = 1 /\ nd.num > 25 * nd.den)
                 /\ skip_stripe' = skip_stripe + (IF v_out' = "stripe" THEN 1 ELSE 0)
        /\ ~AtGates => skip_stripe' = skip_stripe
        /\ stripe_filter = 0 => skip_stripe' = skip_stripe ]_vars

\* with the filter turned off, a frame alternating between 0 and 255 was
\* displayed and the stripe counter stayed at 0
C28_Witness ==
    /\ stripe_filter = 0 /\ v_out = "shown" /\ skip_stripe = 0
    /\ Len(shown) = MinFrame /\ shown[1] = 0 /\ shown[2] = 255

\* C29: when opening the save file fails for a requested save, a message
\* is emitted for that iteration and the frame is still displayed.
C29_SaveFailureReported ==
    v_fopen = "fail" => (v_savemsg # "none" /\ v_out = "shown")

\* C30: whatever width keys are pressed, the display width stays between
\* 10 and 1284, a frame of that width and 480 rows fits the pixel buffer,
\* and R sets the width to 642.
C30_WidthBounds ==
    /\ [](MinWidth <= dw /\ dw <= 1284 /\ dw * FRAME_H_DEFAULT <= ArgbPixels)
    /\ [][ Key_R => dw' = 642 ]_vars

\* the width has been raised to the texture width
C30_Witness == dw = tex_w

\* The samples a source decodes to in each mode, indexed from 0 and before
\* the limit of width x height is applied: every byte; the bytes at the even
\* indices; the bytes at the odd indices; the little-endian byte pairs.
SamplesOf(src, mode) ==
    LET n == Len(src)
    IN IF mode = 0 THEN [i \in 0..(n - 1) |-> src[i + 1]]
       ELSE IF mode = 1 THEN [i \in 0..(((n + 1) \div 2) - 1) |-> src[2 * i + 1]]
       ELSE IF mode = 2 THEN [i \in 0..((n \div 2) - 1) |-> src[2 * i + 2]]
       ELSE [i \in 0..((n \div 2) - 1) |-> src[2 * i + 1] + 256 * src[2 * i + 2]]
\* how many of them are decoded
DecodedOf(src, mode, npix) ==
    IF Len(src) < 2 THEN 0
    ELSE Min(Cardinality(DOMAIN SamplesOf(src, mode)), npix)
\* floor((v - mn) * 255 / (mx - mn)), 0 when mn = mx
Stretched(v, mn, mx) == IF mx = mn THEN 0 ELSE ((v - mn) * 255) \div (mx - mn)

\* C31: render_frame decodes min(srclen, width x height) bytes in Direct
\* mode, the bytes at indices 0, 2, 4, ... in Even mode and 1, 3, 5, ... in
\* Odd mode, and the values byte[2i] + 256 byte[2i+1] of the first
\* min(srclen / 2, width x height) pairs in 16-bit mode, each limited to
\* width x height pixels: pixel i shows the stretched value of sample i and
\* every pixel past the decoded count is black, as is the whole area for a
\* source shorter than 2 bytes.
C31_DecodedSamples ==
    r_done = 1 =>
        LET npix == r_w * 480
            smp == SamplesOf(r_src, r_mode)
            k == DecodedOf(r_src, r_mode, npix)
            vals == {smp[i] : i \in 0..(k - 1)}
            mn == IF k > 0 THEN SetMin(vals) ELSE 0
            mx == IF k > 0 THEN SetMax(vals) ELSE 0
        IN /\ r_mode = 0 => k = (IF Len(r_src) < 2 THEN 0 ELSE Min(Len(r_src), npix))
           /\ r_mode = 3 => k = (IF Len(r_src) < 2 THEN 0 ELSE Min(Len(r_src) \div 2, npix))
           /\ \A i \in 0..(npix - 1) :
                 r_dst[i] = IF i < k THEN LET v == Stretched(smp[i], mn, mx)
                                          IN <<255, v, v, v>>
                            ELSE <<0, 0, 0, 0>>

\* a source of more than twice width x height stepping bytes was rendered in
\* 16-bit mode: the last pixel of the area is decoded and not black
C31_Witness ==
    /\ r_done = 1 /\ r_mode = MODE_16BIT_LE
    /\ Len(r_src) > 2 * r_w * 480 /\ r_src[1] # r_src[2]
    /\ r_dst[r_w * 480 - 1][1] = 255 /\ r_dst[r_w * 480 - 1][2] > 0

\* C32: in every mode, when the decoded samples are not all equal, a
\* decoded sample equal to their minimum is shown with intensity 0, one
\* equal to their maximum with 255, every decoded sample v with
\* floor((v - min) 255 / (max - min)), and of two neighbouring decoded
\* samples the larger is never shown darker; min and max are those of the
\* decoded samples only.
C32_ContrastStretch ==
    r_done = 1 =>
        LET npix == r_w * 480
            smp == SamplesOf(r_src, r_mode)
            k == DecodedOf(r_src, r_mode, npix)
            vals == {smp[i] : i \in 0..(k - 1)}
            mn == IF k > 0 THEN SetMin(vals) ELSE 0
            mx == IF k > 0 THEN SetMax(vals) ELSE 0
        IN (k > 0 /\ mn # mx) =>
              /\ r_range = mx - mn
              /\ \A i \in 0..(k - 1) :
                    /\ smp[i] = mn => r_dst[i][2] = 0
                    /\ smp[i] = mx => r_dst[i][2] = 255
                    /\ r_dst[i][2] = ((smp[i] - mn) * 255) \div (mx - mn)
                    /\ (i + 1 < k /\ smp[i] <= smp[i + 1]) => r_dst[i][2] <= r_dst[i + 1][2]
                    /\ (i + 1 < k /\ smp[i] >= smp[i + 1]) => r_dst[i][2] >= r_dst[i + 1][2]

\* Even mode over stepping bytes: the even-index bytes span 0..254 while the
\* source also holds 255, and the stretch is over 254
C32_Witness ==
    /\ r_done = 1 /\ r_mode = MODE_DEINT_EVEN /\ r_range = 254
    /\ \E j \in 1..Len(r_src) : r_src[j] = 255
    /\ \E i \in 0..300 : r_dst[i][2] = 255
    /\ \E i \in 0..300 : r_dst[i][2] = 0 /\ r_dst[i][1] = 255

\* C33: the display is rendered and presented in exactly the iterations
\* whose frame passed every gate: the number of renders always equals the
\* displayed-frame counter, and a step that rejects or silently consumes a
\* frame, or handles a key, leaves the displayed image as it was.
C33_RenderPerAccepted ==
    /\ [](renders = frames)
    /\ [][ /\ renders' \in {renders, renders + 1}
           /\ renders' = renders + 1 <=>
                 (AtGates /\ FirstFailing(GatePix) = "shown")
           /\ renders' = renders + 1 => shown' = GatePix
           /\ renders' = renders => shown' = shown ]_vars

\* a frame was displayed and the next one, too dark, was rejected: one
\* render, and the image is still the first frame
C33_Witness ==
    /\ renders = 1 /\ frames = 1 /\ all_frames = 2 /\ v_out = "dark"
    /\ Len(shown) >= MinFrame /\ shown # StrippedIn(v_in)

\* C34: whenever frame hold is off the size lock is 0, the continuity
\* baseline is -1 and the hold buffer is marked invalid; so with hold off the
\* lock key leaves the lock at 0, and a frame that reaches the gates is
\* rejected only by the stripe gate or the brightness floor.
C34_HoldOffState ==
    /\ [](frame_hold = 0 => (locked_size = 0 /\ last_avg = -1 /\ hold_valid = 0))
    /\ [][ frame_hold = 0 =>
              /\ Key_L => locked_size' = 0
              /\ AtGates => v_out' \in {"stripe", "dark", "shown"}
              /\ skip_size' = skip_size /\ skip_bright' = skip_bright ]_vars

\* a frame was held, hold was turned off, and the next frame, of a
\* different length, was displayed
C34_Witness ==
    /\ frame_hold = 0 /\ hold_len > 0 /\ v_out = "shown" /\ frames = 2
    /\ Len(shown) # hold_len /\ locked_size = 0 /\ last_avg = -1 /\ hold_valid = 0

\* frames rejected by the four gates so far
Rejected == skip_stripe + skip_size + skip_dark + skip_bright
\* this step added a fragment to an accumulation still short of its target
Consumed == accum_off' > accum_off

\* C35: all counters start at 0, none goes down, and in every step the
\* total-frames counter grows by what the displayed counter and the four
\* rejection counters grow by, plus 1 when the step left a fragment in an
\* unfinished accumulation; with accumulation off no step does, so that the
\* total then grows exactly with the other five.
C35_FrameAccounting ==
    /\ all_frames = 0 /\ frames = 0 /\ Rejected = 0 /\ accum_off = 0
    /\ [](all_frames >= frames + Rejected)
    /\ [][ /\ all_frames' - all_frames =
                 (frames' - frames) + (Rejected' - Rejected)
                 + (IF Consumed THEN 1 ELSE 0)
           /\ all_frames' - all_frames \in {0, 1}
           /\ frames' >= frames /\ skip_stripe' >= skip_stripe
           /\ skip_size' >= skip_size /\ skip_dark' >= skip_dark
           /\ skip_bright' >= skip_bright
           /\ accumulate = 0 => ~Consumed ]_vars

\* in accumulation mode one fragment was consumed and the next completed a
\* frame that was displayed: two frames in total, one displayed, none rejected
C35_Witness ==
    /\ accumulate = 1 /\ nfs > 0 /\ all_frames = 2 /\ frames = 1
    /\ Rejected = 0 /\ v_out = "shown" /\ accum_off = 0

\* C36: an iteration that reaches the brightness gate divides by a sample
\* count min(len, 4000) of at least 1, whatever the configuration and the
\* negotiated frame size.
C36_MeanOverBytes ==
    v_out \in {"fpe", "dark", "bright", "shown"} =>
        (v_out # "fpe" /\ Min(v_pixlen, PrefixCap) >= 1)

\* C37: the accumulation offset, the bytes written into the accumulation
\* buffer and the bytes written into the hold buffer never go past the
\* capacity the two buffers are allocated with, whatever frame size the
\* device reported.
C37_WithinCapacity ==
    /\ accum_off <= ViewBufSz
    /\ Len(accum_buf) <= ViewBufSz
    /\ Len(hold_buf) <= ViewBufSz

\* C38: while frame hold is on and a baseline is set, the baseline is the
\* brightness of the frame displayed last, and a frame displayed next is
\* within 40 of it; a frame displayed while hold is on and a lock L > 0 is in
\* force has a length between L * 80 / 100 and L * 120 / 100, rounded down;
\* the hold length changes only to the length of a frame being displayed,
\* and the lock changes to a nonzero value only by taking the hold length,
\* so that a nonzero lock is the length of a frame accepted before.
C38_StabilizerBounds ==
    /\ [](/\ (frame_hold = 1 /\ last_avg >= 0) =>
                (frames >= 1 /\ last_avg = AvgOf(shown))
          /\ locked_size > 0 => (frames >= 1 /\ hold_len > 0))
    /\ [][ /\ (Displayed /\ frame_hold = 1 /\ last_avg >= 0) =>
                 /\ AvgOf(shown') - AvgOf(shown) <= 40
                 /\ AvgOf(shown) - AvgOf(shown') <= 40
           /\ (Displayed /\ frame_hold = 1 /\ locked_size > 0) =>
                 /\ Len(shown') >= (locked_size * 80) \div 100
                 /\ Len(shown') <= (locked_size * 120) \div 100
           /\ hold_len' # hold_len =>
                 (Displayed /\ hold_len' = Len(shown'))
           /\ (locked_size' # locked_size /\ locked_size' > 0) =>
                 locked_size' = hold_len' ]_vars

\* with hold on, a frame of brightness 128 was displayed and locked the
\* band, and the next displayed frame has brightness 168, exactly 40 more
C38_Witness ==
    /\ frames = 2 /\ frame_hold = 1 /\ last_avg = 168 /\ v_out = "shown"
    /\ locked_size = MinFrame /\ hold_len = MinFrame /\ v_steps = 2
    /\ Len(shown) = MinFrame /\ shown[1] = 168

\* C39: read_frame looks at a packet of two bytes or more in the order
\* header validity, error bit, identity flip, end-of-frame.  A packet
\* without a valid header is appended whatever its flag bits; a valid one
\* with the error bit discards the accumulation and returns nothing, the
\* end-of-frame bit set or not; one without the error bit that flips the
\* identity with bytes accumulated returns those bytes alone, the
\* end-of-frame bit set or not; only then does end-of-frame end the call,
\* after the payload is appended.
C39_FlagPrecedence ==
    [][ mpc = "rf_xfer" =>
          \A p \in Packets :
             (Len(p) >= 2 /\ bfh' = p[2] /\ RF_Packet(p)) =>
                LET valid == p[1] >= 2 /\ p[1] <= Len(p)
                    errbit == BitAnd(p[2], BFH_ERR) # 0
                    eof == BitAnd(p[2], BFH_EOF) # 0
                    flip == fid >= 0 /\ BitAnd(p[2], BFH_FID) # fid /\ off > 0
                IN /\ ~valid =>
                        /\ mpc' = "rf_check" /\ fid' = fid
                        /\ off' = Min(off + Len(p), BufSz)
                   /\ (valid /\ errbit) =>
                        (mpc' = "rf_check" /\ off' = 0 /\ fid' = -1)
                   /\ (valid /\ ~errbit /\ flip) =>
                        /\ mpc' = "got" /\ got' = off
                        /\ off' = off /\ buf' = buf
                   /\ (valid /\ ~errbit /\ ~flip) =>
                        /\ off' = Min(off + Len(p) - p[1], BufSz)
                        /\ IF eof THEN mpc' = "got" /\ got' = off'
                                  ELSE mpc' = "rf_check" ]_vars

\* a packet with a valid header and both the error and the end-of-frame bit
\* arrived after bytes had been gathered: nothing is accumulated, the
\* identity is unset and the call goes on
C39_Witness ==
    /\ mpc = "rf_check" /\ bfh = BFH_ERR + BFH_EOF /\ err = 1
    /\ off = 0 /\ fid = -1 /\ buf[1] # 0

\* C40: a step that leaves the keep-running flag cleared renders nothing,
\* saves nothing and takes no frame to the gates.
C40_NothingAfterClear ==
    [][ g_running' = 0 =>
          /\ renders' = renders /\ shown' = shown /\ saved' = saved
          /\ frames' = frames /\ all_frames' = all_frames ]_vars

=============================================================================
